---- MODULE Spec2Model ----
(***************************************************************************)
(* Model of the pump.fun mint watcher: the stream ingestor                 *)
(* (GeyserService.handleData), the enrichment orchestrator                 *)
(* (GeyserService.fetchMetadataWithRetry) and the metadata cache           *)
(* (MetadataCacheService), with the query surface (MetadataQueryService)   *)
(* and the batcher of CategorizationService.                               *)
(*                                                                         *)
(* Node.js runs every handler to its next await without interruption, so   *)
(* one action is one such run: from the arrival of an event (a stream      *)
(* message, the resolution of a promise, a timer, a call of the query      *)
(* surface) to the next await or to the return.                            *)
(*                                                                         *)
(* The specifications (IngestSpec, QuerySpec, SweepSpec and BatchSpec are  *)
(* described where they are defined):                                      *)
(*   Spec       the whole system: ingestor, orchestrations, sweep timer,   *)
(*              query surface, clock;                                      *)
(*   LiveSpec   the whole system with every started call of                *)
(*              fetchMetadataWithRetry resumed whenever one of its awaits  *)
(*              can settle (weak fairness);                                *)
(*   CacheSpec  the public operations of MetadataCacheService on the cache *)
(*              map called in any order (the service is handed out by      *)
(*              getCache());                                               *)
(*   PendingSpec  the writing operations of the cache with the operations  *)
(*              on the pending set.                                        *)
(***************************************************************************)
EXTENDS Integers, Sequences, FiniteSets, TLC

VARIABLES
  now,            \* Date.now(), in milliseconds since the start
  ticks,          \* how often the clock was advanced (bounds the model)
  cache,          \* MetadataCacheService.cache: Map<string, CachedTokenMetadata>
  pendingFetches, \* MetadataCacheService.pendingFetches: Set<string>
  orch,           \* the calls of fetchMetadataWithRetry made so far, in call order
  notifications,  \* what eventEmitter.emit was called with, in order
  lastOp,         \* CacheSpec: the cache operation just called, with its result
  putMark,        \* CacheSpec: per id, the last set() that no later write followed
  failMark,       \* CacheSpec: per id, the time of the last markFailedAttempt
  tokenBuffer,    \* CategorizationService.tokenBuffer: TokenStreamDto[]
  batchCalls,     \* the calls of processBatch awaiting categorizeWithOpenAI
  categorized,    \* BatchSpec: per token, in how many categorized batches it was
  passed,         \* BatchSpec: how many tokens processTokenStream was called with
  rejected        \* BatchSpec: how many batches failed (bounds the model)

\* The state of the categorization batcher.
batchVars == <<tokenBuffer, batchCalls, categorized, passed, rejected>>

vars == <<now, ticks, cache, pendingFetches, orch, notifications,
          lastOp, putMark, failMark, batchVars>>

(***************************************************************************)
(* Bounds of the model.                                                    *)
(***************************************************************************)
MaxTicks == 2      \* CacheSpec: clock advances
MaxAttempts == 2   \* CacheSpec: attempts recorded per id by markFailedAttempt
MaxPendingTicks == 1   \* PendingSpec: clock advances
MaxOrch == 2       \* Spec: calls of fetchMetadataWithRetry
MaxJumps == 1      \* Spec: clock jumps

(***************************************************************************)
(* Program constants.                                                      *)
(***************************************************************************)
CACHE_EXPIRY_MS == 60 * 60 * 1000
RETRY_DELAY_MS == 5 * 60 * 1000
FAILED_EXPIRY_MS == 24 * 60 * 60 * 1000
maxRetries == 3
delayMs == 2000

\* Asset identifiers (base58 mint addresses).
Mints == {"MintA", "MintB"}

\* By how much the clock is advanced in one step of CacheSpec: the retry
\* delay exactly (no retry yet), the success expiry exactly (past the retry
\* delay, not yet expired), one millisecond past it, and one millisecond
\* past the expiry of a failed entry.
TimeSteps == {RETRY_DELAY_MS, CACHE_EXPIRY_MS, CACHE_EXPIRY_MS + 1,
              FAILED_EXPIRY_MS + 1}

\* JavaScript's null and undefined.
Null == [null |-> TRUE]
Undefined == [undefined |-> TRUE]

\* A value that may be undefined is Undefined or [some |-> v].
Some(v) == [some |-> v]

(***************************************************************************)
(* TokenMetadata as MetadataService.getTokenMetadata builds it. Two        *)
(* on-chain records are distinguished: one with a name and an off-chain    *)
(* document, one whose on-chain name is the empty string.                  *)
(***************************************************************************)
MetaVariants == {"named", "unnamed"}

TokenMetadata(mintAddress, variant) ==
  IF variant = "named"
  THEN [name |-> "Pepe", symbol |-> "PEPE", uri |-> "https://ipfs/pepe",
        mint |-> mintAddress, updateAuthority |-> "Auth",
        isMutable |-> FALSE, primarySaleHappened |-> FALSE,
        sellerFeeBasisPoints |-> 0,
        offChainMetadata |-> [description |-> "a frog", image |-> "pepe.png"]]
  ELSE [name |-> "", symbol |-> "", uri |-> "",
        mint |-> mintAddress, updateAuthority |-> "Auth",
        isMutable |-> TRUE, primarySaleHappened |-> FALSE,
        sellerFeeBasisPoints |-> 100,
        offChainMetadata |-> Undefined]

\* The bookkeeping fields CachedTokenMetadata adds to TokenMetadata.
Bookkeeping == {"failed", "cachedAt", "attempts", "lastAttempt"}

\* The descriptive part of a cache entry.
MetadataOf(entry) == [k \in (DOMAIN entry) \ Bookkeeping |-> entry[k]]

(***************************************************************************)
(* Map operations.                                                         *)
(***************************************************************************)
EmptyMap == [k \in {} |-> Null]
MapHas(m, k) == k \in DOMAIN m
MapSet(m, k, v) == [x \in (DOMAIN m) \cup {k} |-> IF x = k THEN v ELSE m[x]]
MapDelete(m, k) == [x \in (DOMAIN m) \ {k} |-> m[x]]

(***************************************************************************)
(* MetadataCacheService. Each operation is a function of the cache (or the *)
(* pending set), its arguments and the clock, giving the new cache and,    *)
(* where the method returns something, the value returned.                 *)
(***************************************************************************)

\* get(mintAddress): [ret |-> entry or Null, cache |-> the cache afterwards]
get_IgnoresExpiry(c, mintAddress, t) ==
  [ret |-> IF MapHas(c, mintAddress) THEN c[mintAddress] ELSE Null, cache |-> c]

get_ExpiresEarly(c, mintAddress, t) ==
  IF ~MapHas(c, mintAddress)
  THEN [ret |-> Null, cache |-> c]
  ELSE IF t - c[mintAddress].cachedAt > RETRY_DELAY_MS
       THEN [ret |-> Null, cache |-> MapDelete(c, mintAddress)]
       ELSE [ret |-> c[mintAddress], cache |-> c]

get_KeepsExpired(c, mintAddress, t) ==
  IF ~MapHas(c, mintAddress)
  THEN [ret |-> Null, cache |-> c]
  ELSE IF t - c[mintAddress].cachedAt > CACHE_EXPIRY_MS
       THEN [ret |-> Null, cache |-> c]
       ELSE [ret |-> c[mintAddress], cache |-> c]

get(c, mintAddress, t) ==
  IF ~MapHas(c, mintAddress)
  THEN [ret |-> Null, cache |-> c]
  ELSE IF t - c[mintAddress].cachedAt > CACHE_EXPIRY_MS
       THEN [ret |-> Null, cache |-> MapDelete(c, mintAddress)]
       ELSE [ret |-> c[mintAddress], cache |-> c]

set_KeepsOld(c, mintAddress, metadata, t) ==
  IF MapHas(c, mintAddress) THEN c
  ELSE MapSet(c, mintAddress,
              [cachedAt |-> t, attempts |-> 1, lastAttempt |-> t,
               failed |-> FALSE] @@ metadata)

\* set(mintAddress, metadata)
set(c, mintAddress, metadata, t) ==
  MapSet(c, mintAddress,
         [cachedAt |-> t, attempts |-> 1, lastAttempt |-> t, failed |-> FALSE]
           @@ metadata)

\* markFailedAttempt(mintAddress)
markFailedAttempt_KeepsLastAttempt(c, mintAddress, t) ==
  IF MapHas(c, mintAddress)
  THEN [c EXCEPT ![mintAddress].attempts = @ + 1]
  ELSE MapSet(c, mintAddress,
              [mint |-> mintAddress, name |-> "", symbol |-> "", uri |-> "",
               updateAuthority |-> "", isMutable |-> FALSE,
               primarySaleHappened |-> FALSE, sellerFeeBasisPoints |-> 0,
               cachedAt |-> t, attempts |-> 1, lastAttempt |-> t, failed |-> TRUE])

markFailedAttempt_MarksFailed(c, mintAddress, t) ==
  IF MapHas(c, mintAddress)
  THEN [c EXCEPT ![mintAddress].attempts = @ + 1,
                 ![mintAddress].lastAttempt = t,
                 ![mintAddress].failed = TRUE]
  ELSE MapSet(c, mintAddress,
              [mint |-> mintAddress, name |-> "", symbol |-> "", uri |-> "",
               updateAuthority |-> "", isMutable |-> FALSE,
               primarySaleHappened |-> FALSE, sellerFeeBasisPoints |-> 0,
               cachedAt |-> t, attempts |-> 1, lastAttempt |-> t, failed |-> TRUE])

markFailedAttempt(c, mintAddress, t) ==
  IF MapHas(c, mintAddress)
  THEN [c EXCEPT ![mintAddress].attempts = @ + 1,
                 ![mintAddress].lastAttempt = t]
  ELSE MapSet(c, mintAddress,
              [mint |-> mintAddress, name |-> "", symbol |-> "", uri |-> "",
               updateAuthority |-> "", isMutable |-> FALSE,
               primarySaleHappened |-> FALSE, sellerFeeBasisPoints |-> 0,
               cachedAt |-> t, attempts |-> 1, lastAttempt |-> t, failed |-> TRUE])

\* shouldRetry(mintAddress)
shouldRetry_NeverFirst(c, mintAddress, t) ==
  IF ~MapHas(c, mintAddress)
  THEN FALSE
  ELSE IF ~c[mintAddress].failed /\ c[mintAddress].name # ""
       THEN FALSE
       ELSE t - c[mintAddress].lastAttempt > RETRY_DELAY_MS

shouldRetry_AtDelay(c, mintAddress, t) ==
  IF ~MapHas(c, mintAddress)
  THEN TRUE
  ELSE IF ~c[mintAddress].failed /\ c[mintAddress].name # ""
       THEN FALSE
       ELSE t - c[mintAddress].lastAttempt >= RETRY_DELAY_MS

shouldRetry(c, mintAddress, t) ==
  IF ~MapHas(c, mintAddress)
  THEN TRUE
  ELSE IF ~c[mintAddress].failed /\ c[mintAddress].name # ""
       THEN FALSE
       ELSE t - c[mintAddress].lastAttempt > RETRY_DELAY_MS

\* isFetching / markFetching / markFetchCompleted
isFetching(p, mintAddress) == mintAddress \in p
markFetching_Forgets(p, mintAddress) == p
markFetching(p, mintAddress) == p \cup {mintAddress}
markFetchCompleted_Keeps(p, mintAddress) == p
markFetchCompleted(p, mintAddress) == p \ {mintAddress}

\* cleanup(): the sweep
cleanup_RemovesFailed(c, t) ==
  [k \in {x \in DOMAIN c :
            ~c[x].failed /\ t - c[x].cachedAt <= CACHE_EXPIRY_MS} |-> c[k]]

cleanup_OneExpiry(c, t) ==
  [k \in {x \in DOMAIN c : t - c[x].cachedAt <= CACHE_EXPIRY_MS} |-> c[k]]

cleanup(c, t) ==
  LET expired(k) ==
        \/ ~c[k].failed /\ t - c[k].cachedAt > CACHE_EXPIRY_MS
        \/ c[k].failed /\ t - c[k].cachedAt > FAILED_EXPIRY_MS
  IN  [k \in {x \in DOMAIN c : ~expired(x)} |-> c[k]]

(***************************************************************************)
(* Initial state: a freshly constructed service, nothing cached, nothing   *)
(* pending, no message handled yet.                                        *)
(***************************************************************************)
NoOp == [op |-> "none"]
NoMark == [none |-> TRUE]

Init ==
  /\ now = 0
  /\ ticks = 0
  /\ cache = EmptyMap
  /\ pendingFetches = {}
  /\ orch = << >>
  /\ notifications = << >>
  /\ lastOp = NoOp
  /\ putMark = [id \in Mints |-> NoMark]
  /\ failMark = [id \in Mints |-> NoMark]
  /\ tokenBuffer = << >>
  /\ batchCalls = << >>
  /\ categorized = << >>
  /\ passed = 0
  /\ rejected = 0

(***************************************************************************)
(* CacheSpec: the cache's public operations, called in any order.          *)
(***************************************************************************)
systemVars == <<orch, notifications>>

\* The number of attempts recorded for an id (0 when nothing is cached).
AttemptsOf(c, id) == IF MapHas(c, id) THEN c[id].attempts ELSE 0

CallGet(id) ==
  LET r == get(cache, id, now)
  IN  /\ cache' = r.cache
      /\ lastOp' = [op |-> "get", id |-> id, ret |-> r.ret,
                    before |-> IF MapHas(cache, id) THEN cache[id] ELSE Null]
      /\ UNCHANGED <<now, ticks, batchVars, pendingFetches, putMark, failMark, systemVars>>

CallSet(id, variant) ==
  /\ cache' = set(cache, id, TokenMetadata(id, variant), now)
  /\ lastOp' = [op |-> "set", id |-> id]
  /\ putMark' = [putMark EXCEPT ![id] =
                   [metadata |-> TokenMetadata(id, variant), at |-> now]]
  /\ failMark' = [failMark EXCEPT ![id] = NoMark]
  /\ UNCHANGED <<now, ticks, batchVars, pendingFetches, systemVars>>

CallMarkFailedAttempt(id) ==
  /\ AttemptsOf(cache, id) < MaxAttempts
  /\ cache' = markFailedAttempt(cache, id, now)
  /\ lastOp' = [op |-> "markFailedAttempt", id |-> id]
  /\ putMark' = [putMark EXCEPT ![id] = NoMark]
  /\ failMark' = [failMark EXCEPT ![id] = [at |-> now]]
  /\ UNCHANGED <<now, ticks, batchVars, pendingFetches, systemVars>>

CallCleanup ==
  /\ cache' = cleanup(cache, now)
  /\ lastOp' = [op |-> "cleanup", removed |-> DOMAIN cache \ DOMAIN cache']
  /\ UNCHANGED <<now, ticks, batchVars, pendingFetches, putMark, failMark, systemVars>>

CallClear ==
  /\ cache' = EmptyMap
  /\ pendingFetches' = {}
  /\ lastOp' = NoOp
  /\ putMark' = [id \in Mints |-> NoMark]
  /\ failMark' = [id \in Mints |-> NoMark]
  /\ UNCHANGED <<now, ticks, batchVars, systemVars>>

Advance(d) ==
  /\ ticks < MaxTicks
  /\ now' = now + d
  /\ ticks' = ticks + 1
  /\ UNCHANGED batchVars
  /\ lastOp' = NoOp
  /\ UNCHANGED <<cache, pendingFetches, putMark, failMark, systemVars>>

CacheNext ==
  \/ \E id \in Mints : CallGet(id)
  \/ \E id \in Mints, variant \in MetaVariants : CallSet(id, variant)
  \/ \E id \in Mints : CallMarkFailedAttempt(id)
  \/ CallCleanup
  \/ CallClear
  \/ \E d \in TimeSteps : Advance(d)

CacheSpec == Init /\ [][CacheNext]_vars

(***************************************************************************)
(* PendingSpec: the operations that write the cache together with the      *)
(* operations on the pending set, called in any order. CheckAndMark is the *)
(* caller's isFetching followed by markFetching with no await in between,  *)
(* as in fetchMetadataWithRetry.                                           *)
(***************************************************************************)
CallIsFetching(id) ==
  /\ lastOp' = [op |-> "isFetching", id |-> id,
                ret |-> isFetching(pendingFetches, id)]
  /\ UNCHANGED <<now, ticks, batchVars, cache, pendingFetches, putMark, failMark,
                 systemVars>>

CallMarkFetching(id) ==
  /\ pendingFetches' = markFetching(pendingFetches, id)
  /\ lastOp' = [op |-> "markFetching", id |-> id]
  /\ UNCHANGED <<now, ticks, batchVars, cache, putMark, failMark, systemVars>>

CallMarkFetchCompleted(id) ==
  /\ pendingFetches' = markFetchCompleted(pendingFetches, id)
  /\ lastOp' = [op |-> "markFetchCompleted", id |-> id]
  /\ UNCHANGED <<now, ticks, batchVars, cache, putMark, failMark, systemVars>>

CheckAndMark(id) ==
  LET alreadyFetching == isFetching(pendingFetches, id)
  IN  /\ pendingFetches' = IF alreadyFetching
                           THEN pendingFetches
                           ELSE markFetching(pendingFetches, id)
      /\ lastOp' = [op |-> "checkAndMark", id |-> id,
                    alreadyFetching |-> alreadyFetching]
      /\ UNCHANGED <<now, ticks, batchVars, cache, putMark, failMark, systemVars>>

PendingAdvance(d) ==
  /\ ticks < MaxPendingTicks
  /\ now' = now + d
  /\ ticks' = ticks + 1
  /\ UNCHANGED batchVars
  /\ lastOp' = NoOp
  /\ UNCHANGED <<cache, pendingFetches, putMark, failMark, systemVars>>

PendingNext ==
  \/ \E id \in Mints, variant \in MetaVariants : CallSet(id, variant)
  \/ \E id \in Mints : CallMarkFailedAttempt(id)
  \/ CallClear
  \/ \E id \in Mints : CallIsFetching(id)
  \/ \E id \in Mints : CallMarkFetching(id)
  \/ \E id \in Mints : CallMarkFetchCompleted(id)
  \/ \E id \in Mints : CheckAndMark(id)
  \/ \E d \in TimeSteps : PendingAdvance(d)

PendingSpec == Init /\ [][PendingNext]_vars

(***************************************************************************)
(* The read operations of MetadataCacheService and MetadataQueryService.   *)
(* A result array is modelled as the set of its entries (entries of        *)
(* different mints differ): its order is the insertion order of the Map,   *)
(* which the cache of the model does not record. getRecent sorts, and its  *)
(* result is a sequence.                                                   *)
(***************************************************************************)

\* String.prototype.toLowerCase and String.prototype.includes on the names,
\* symbols and search terms of the model.
Terms == {"", "pe", "PEPE", "doge"}

toLowerCase(str) ==
  CASE str = "Pepe" -> "pepe"
    [] str = "PEPE" -> "pepe"
    [] OTHER -> str

includes(str, searchString) ==
  \/ searchString = ""
  \/ str = searchString
  \/ str = "pepe" /\ searchString = "pe"

\* getAll(): a copy of the map
getAll(c) == c

Values(c) == {c[k] : k \in DOMAIN c}

\* search(query)
search_KeepsFailed(c, query) ==
  {metadata \in Values(c) :
     \/ includes(toLowerCase(metadata.name), toLowerCase(query))
     \/ includes(toLowerCase(metadata.symbol), toLowerCase(query))}

search(c, query) ==
  {metadata \in Values(c) :
     /\ ~metadata.failed
     /\ \/ includes(toLowerCase(metadata.name), toLowerCase(query))
        \/ includes(toLowerCase(metadata.symbol), toLowerCase(query))}

\* getBySymbol(symbol)
getBySymbol(c, symbol) ==
  {metadata \in Values(getAll(c)) :
     /\ ~metadata.failed
     /\ toLowerCase(metadata.symbol) = toLowerCase(symbol)}

\* Array.prototype.sort((a, b) => b.cachedAt - a.cachedAt). (Entries cached
\* at the same time keep their insertion order in the program; the model
\* puts them in some order.)
RECURSIVE SortByCachedAtDesc(_)
SortByCachedAtDesc(S) ==
  IF S = {}
  THEN << >>
  ELSE LET first == CHOOSE a \in S : \A b \in S : a.cachedAt >= b.cachedAt
       IN  <<first>> \o SortByCachedAtDesc(S \ {first})

\* getRecent(minutesAgo)
getRecent(c, minutesAgo, t) ==
  LET cutoffTime == t - minutesAgo * 60 * 1000
  IN  SortByCachedAtDesc({metadata \in Values(getAll(c)) :
                            /\ ~metadata.failed
                            /\ metadata.cachedAt >= cutoffTime})

\* metadata.offChainMetadata?.image and ?.description: Undefined without an
\* off-chain document
OffChain(metadata, field) ==
  IF "offChainMetadata" \notin DOMAIN metadata THEN Undefined
  ELSE IF metadata.offChainMetadata = Undefined THEN Undefined
  ELSE IF field \notin DOMAIN metadata.offChainMetadata THEN Undefined
  ELSE Some(metadata.offChainMetadata[field])

\* !!value for a string or undefined
Truthy(value) == value # Undefined /\ value.some # ""

\* getByCharacteristics(filters): filters is a record of the fields given;
\* a field left out is undefined.
Given(filters, field) == field \in DOMAIN filters

getByCharacteristics(c, filters) ==
  {metadata \in Values(getAll(c)) :
     /\ ~metadata.failed
     /\ ~(Given(filters, "isMutable")
            /\ metadata.isMutable # filters.isMutable)
     /\ ~(Given(filters, "primarySaleHappened")
            /\ metadata.primarySaleHappened # filters.primarySaleHappened)
     /\ ~(Given(filters, "hasImage")
            /\ Truthy(OffChain(metadata, "image")) # filters.hasImage)
     /\ ~(Given(filters, "hasDescription")
            /\ Truthy(OffChain(metadata, "description")) # filters.hasDescription)
     /\ ~(Given(filters, "sellerFeeBasisPointsMin")
            /\ metadata.sellerFeeBasisPoints < filters.sellerFeeBasisPointsMin)
     /\ ~(Given(filters, "sellerFeeBasisPointsMax")
            /\ metadata.sellerFeeBasisPoints > filters.sellerFeeBasisPointsMax)}

\* getAllSuccessful()
getAllSuccessful(c) == {metadata \in Values(getAll(c)) : ~metadata.failed}

\* getStats()
getStats_CountsEntriesTwice(c, p) ==
  [totalEntries |-> Cardinality(DOMAIN c),
   successfulEntries |-> Cardinality(DOMAIN c),
   failedEntries |-> Cardinality({k \in DOMAIN c : c[k].failed}),
   pendingFetches |-> Cardinality(p)]

getStats(c, p) ==
  [totalEntries |-> Cardinality(DOMAIN c),
   successfulEntries |-> Cardinality({k \in DOMAIN c : ~c[k].failed}),
   failedEntries |-> Cardinality({k \in DOMAIN c : c[k].failed}),
   pendingFetches |-> Cardinality(p)]

(***************************************************************************)
(* QuerySpec: the operations that write the cache and the pending set,     *)
(* and the reads of the query surface, called in any order. lastOp records *)
(* the read just made and what it returned.                                *)
(***************************************************************************)
Reads(op, arg, ret) ==
  /\ lastOp' = [op |-> op, arg |-> arg, ret |-> ret]
  /\ UNCHANGED <<now, ticks, batchVars, cache, pendingFetches, putMark, failMark,
                 systemVars>>

Search(query) == Reads("search", query, search(cache, query))

GetBySymbol(symbol) == Reads("getBySymbol", symbol, getBySymbol(cache, symbol))

MinutesAgo == {60, 5}

GetRecent(minutesAgo) ==
  Reads("getRecent", minutesAgo, getRecent(cache, minutesAgo, now))

Filters ==
  { << >>,
    [isMutable |-> TRUE],
    [hasImage |-> TRUE, primarySaleHappened |-> FALSE],
    [hasDescription |-> FALSE, sellerFeeBasisPointsMin |-> 50],
    [isMutable |-> FALSE, sellerFeeBasisPointsMax |-> 50] }

GetByCharacteristics(filters) ==
  Reads("getByCharacteristics", filters, getByCharacteristics(cache, filters))

GetAllSuccessful == Reads("getAllSuccessful", << >>, getAllSuccessful(cache))

GetStats == Reads("getStats", << >>, getStats(cache, pendingFetches))

\* By how much the clock is advanced in one step of QuerySpec: five minutes
\* exactly, and one millisecond more than an hour.
QuerySteps == {RETRY_DELAY_MS, CACHE_EXPIRY_MS + 1}

QueryNext ==
  \/ \E id \in Mints, variant \in MetaVariants : CallSet(id, variant)
  \/ \E id \in Mints : CallMarkFailedAttempt(id)
  \/ \E id \in Mints : CallMarkFetching(id)
  \/ \E d \in QuerySteps : PendingAdvance(d)
  \/ \E query \in Terms : Search(query)
  \/ \E symbol \in Terms : GetBySymbol(symbol)
  \/ \E minutesAgo \in MinutesAgo : GetRecent(minutesAgo)
  \/ \E filters \in Filters : GetByCharacteristics(filters)
  \/ GetAllSuccessful
  \/ GetStats

QuerySpec == Init /\ [][QueryNext]_vars

(***************************************************************************)
(* The inbound stream: SubscribeUpdate messages. A message is a record     *)
(* [filters, transaction]; transaction is Undefined for an update that is  *)
(* no transaction update, else [slot, transaction] whose inner transaction *)
(* (the SubscribeUpdateTransactionInfo) is Undefined or                    *)
(* [signature, transaction], whose transaction is Undefined or [message],  *)
(* and message is Undefined or [accountKeys, instructions].                *)
(* Account keys are byte strings; instruction operands index into them     *)
(* from 0.                                                                 *)
(***************************************************************************)
PUMP_FUN_CREATE_IX_DISCRIMINATOR == <<24, 30, 200, 40, 5, 28, 7, 119>>
OtherDiscriminator == <<102, 6, 61, 18, 1, 218, 235, 234>>

\* The account keys of the model, as bytes, and their base58 text.
KeyProgram == <<1, 86>>
KeyAuthority == <<6, 221>>
KeyMintA == <<11, 7>>
KeyMintB == <<11, 8>>

toBase58(key) ==
  CASE key = KeyProgram -> "6EF8rrecthR5Dkzon8Nwu78hRvfCKubJ14M5uBEwF6P"
    [] key = KeyAuthority -> "TSLvdd1pWpHVjahSpsvCXUbgwsL3JAcvokwaKt1eokM"
    [] key = KeyMintA -> "MintA"
    [] key = KeyMintB -> "MintB"

\* bs58.encode of a one-byte buffer: the digit of its value in the base58
\* alphabet.
Base58Alphabet == <<"1", "2", "3", "4", "5", "6", "7", "8", "9", "A", "B", "C">>

convertSignature(signature) == [base58 |-> Base58Alphabet[signature[1] + 1]]

\* Uint8Array.slice(0, n)
SliceTo(bytes, n) == SubSeq(bytes, 1, IF Len(bytes) < n THEN Len(bytes) ELSE n)

\* array[index] with a 0-based index. An index and an element are wrapped as
\* [some |-> v]; Undefined stands for JavaScript's undefined (an absent index,
\* or one outside the array).
At0(array, index) ==
  IF index # Undefined /\ index.some \in 0 .. (Len(array) - 1)
  THEN Some(array[index.some + 1])
  ELSE Undefined

matchesInstructionDiscriminator_AnyData(ix) == Len(ix.data) > 0

\* (ix.data is always a byte array in a decoded message)
matchesInstructionDiscriminator(ix) ==
  SliceTo(ix.data, 8) = PUMP_FUN_CREATE_IX_DISCRIMINATOR

FindMatching_Last(instructions) ==
  LET hits == {i \in 1 .. Len(instructions) :
                 matchesInstructionDiscriminator(instructions[i])}
  IN  IF hits = {}
      THEN Undefined
      ELSE instructions[CHOOSE i \in hits : \A j \in hits : i >= j]

\* instructions.find(matchesInstructionDiscriminator): the first match
FindMatching(instructions) ==
  LET hits == {i \in 1 .. Len(instructions) :
                 matchesInstructionDiscriminator(instructions[i])}
  IN  IF hits = {}
      THEN Undefined
      ELSE instructions[CHOOSE i \in hits : \A j \in hits : i <= j]

isSubscribeUpdateTransaction(data) == data.transaction # Undefined

\* formatData(message, signature, slot): the formatted record, Undefined
\* without a matching instruction, or Threw when new PublicKey(undefined)
\* throws because operand 0 does not resolve to an account key.
Threw == [threw |-> TRUE]

formatData(message, signature, slot) ==
  LET matchingInstruction == FindMatching(message.instructions)
  IN  IF matchingInstruction = Undefined
      THEN Undefined
      ELSE LET accountIndex == At0(matchingInstruction.accounts, Some(0))
               publicKey == At0(message.accountKeys, accountIndex)
           IN  IF publicKey = Undefined
               THEN Threw
               ELSE [signature |-> signature, slot |-> slot,
                     mint |-> toBase58(publicKey.some)]

Ix(discriminator, accounts) ==
  [programIdIndex |-> 0, accounts |-> accounts,
   data |-> discriminator \o <<0, 0>>]

TxUpdate(filters, signature, message) ==
  [filters |-> filters,
   transaction |-> [slot |-> "250",
                    transaction |-> [signature |-> signature,
                                     transaction |-> [message |-> message]]]]

Keys == <<KeyProgram, KeyAuthority, KeyMintA, KeyMintB>>

\* The stream messages of the model.
Messages ==
  { [filters |-> {}, transaction |-> Undefined],
    [filters |-> {"pumpFun"},
     transaction |-> [slot |-> "250", transaction |-> Undefined]],
    TxUpdate({"pumpFun"}, <<1>>, Undefined),
    TxUpdate({"other"}, <<2>>,
             [accountKeys |-> Keys,
              instructions |-> <<Ix(PUMP_FUN_CREATE_IX_DISCRIMINATOR, <<2>>)>>]),
    TxUpdate({"pumpFun"}, <<3>>,
             [accountKeys |-> Keys,
              instructions |-> <<Ix(OtherDiscriminator, <<2>>)>>]),
    TxUpdate({"pumpFun"}, <<4>>,
             [accountKeys |-> Keys,
              instructions |-> <<Ix(OtherDiscriminator, <<3>>),
                                 Ix(PUMP_FUN_CREATE_IX_DISCRIMINATOR, <<2, 1>>)>>]),
    TxUpdate({"pumpFun"}, <<5>>,
             [accountKeys |-> Keys,
              instructions |-> <<Ix(PUMP_FUN_CREATE_IX_DISCRIMINATOR, <<3, 1>>),
                                 Ix(PUMP_FUN_CREATE_IX_DISCRIMINATOR, <<2, 1>>)>>]),
    TxUpdate({"pumpFun"}, <<6>>,
             [accountKeys |-> Keys,
              instructions |-> <<Ix(PUMP_FUN_CREATE_IX_DISCRIMINATOR, << >>)>>]),
    TxUpdate({"pumpFun"}, <<7>>,
             [accountKeys |-> Keys,
              instructions |-> <<Ix(PUMP_FUN_CREATE_IX_DISCRIMINATOR, <<9>>)>>]) }

(***************************************************************************)
(* Spec: the whole system.                                                 *)
(*                                                                         *)
(* orch[i] is the i-th call of fetchMetadataWithRetry:                     *)
(*   mint        its mintAddress                                           *)
(*   pc          the await it is suspended at: "exists"                    *)
(*               (metadataAccountExists), "delay" (setTimeout), "fetch"    *)
(*               (getPumpFunTokenMetadata), "categorize"                   *)
(*               (sendToCategorization); or "done" once it has returned    *)
(*   attempt     the loop variable                                         *)
(*   wakeAt      when its setTimeout is due (0 unless pc = "delay")        *)
(*   marked      it called markFetching                                    *)
(*   fetchCalls  the getPumpFunTokenMetadata calls it has made             *)
(*   allAbsent   every metadataAccountExists probe it has made so far      *)
(*               returned false                                            *)
(*   result      how it ended: "cached", "cooldown", "duplicate",          *)
(*               "success", "exhausted"; "running" before                  *)
(***************************************************************************)
cacheGhosts == <<lastOp, putMark, failMark>>

Emit(event, payload) == Append(notifications, [event |-> event, payload |-> payload])

\* The call of fetchMetadataWithRetry(mintAddress) up to its first await:
\* [cache, pending, emitted, call], emitted being the 'metadata found'
\* payloads (none or one) and call the record of the call.
Returned(mintAddress, result) ==
  [mint |-> mintAddress, pc |-> "done", attempt |-> 0, wakeAt |-> 0,
   marked |-> FALSE, fetchCalls |-> 0, allAbsent |-> TRUE,
   result |-> result]

fetchMetadataWithRetry(c, p, mintAddress, t) ==
  LET cached == get(c, mintAddress, t)
  IN  IF cached.ret # Null /\ ~cached.ret.failed
      THEN [cache |-> cached.cache, pending |-> p,
            emitted |-> <<[mintAddress |-> mintAddress, metadata |-> cached.ret]>>,
            call |-> Returned(mintAddress, "cached")]
      ELSE IF ~shouldRetry(cached.cache, mintAddress, t)
      THEN [cache |-> cached.cache, pending |-> p, emitted |-> << >>,
            call |-> Returned(mintAddress, "cooldown")]
      ELSE IF isFetching(p, mintAddress)
      THEN [cache |-> cached.cache, pending |-> p, emitted |-> << >>,
            call |-> Returned(mintAddress, "duplicate")]
      ELSE [cache |-> cached.cache, pending |-> markFetching(p, mintAddress),
            emitted |-> << >>,
            call |-> [mint |-> mintAddress, pc |-> "exists", attempt |-> 1,
                      wakeAt |-> 0, marked |-> TRUE,
                      fetchCalls |-> 0, allAbsent |-> TRUE, result |-> "running"]]

\* handleData(data) returns at one of its three early returns: data is no
\* transaction update or lacks the 'pumpFun' filter tag, it has no
\* transaction or no message, or no instruction matches.
Dropped(data) ==
  \/ ~isSubscribeUpdateTransaction(data)
  \/ "pumpFun" \notin data.filters
  \/ data.transaction.transaction = Undefined
  \/ data.transaction.transaction.transaction = Undefined
  \/ data.transaction.transaction.transaction.message = Undefined
  \/ FindMatching(data.transaction.transaction.transaction.message.instructions)
       = Undefined

\* formatData as handleData calls it once a matching instruction is found.
Formatted(data) ==
  LET transaction == data.transaction.transaction
  IN  formatData(transaction.transaction.message,
                 convertSignature(transaction.signature).base58,
                 data.transaction.slot)

\* handleData(data) ends with the exception formatData throws; nothing in
\* handleData or in the 'data' listener catches it.
Raises(data) == ~Dropped(data) /\ Formatted(data) = Threw

handleData_DispatchesFirst(data) ==
  IF Dropped(data) \/ Raises(data)
  THEN UNCHANGED <<now, ticks, batchVars, cache, pendingFetches, orch, notifications>>
  ELSE LET formattedData == Formatted(data)
           r == fetchMetadataWithRetry(cache, pendingFetches,
                                       formattedData.mint, now)
       IN  /\ Len(orch) < MaxOrch
           /\ notifications' =
                (notifications \o [k \in 1 .. Len(r.emitted) |->
                                     [event |-> "pumpfun.metadata.found",
                                      payload |-> r.emitted[k]]])
                  \o <<[event |-> "pumpfun.mint.detected",
                        payload |-> formattedData]>>
           /\ cache' = r.cache
           /\ pendingFetches' = r.pending
           /\ orch' = Append(orch, r.call)
           /\ UNCHANGED <<now, ticks, batchVars>>

handleData_SkipsPending(data) ==
  IF \/ Dropped(data)
     \/ Raises(data)
     \/ isFetching(pendingFetches, Formatted(data).mint)
  THEN UNCHANGED <<now, ticks, batchVars, cache, pendingFetches, orch, notifications>>
  ELSE LET formattedData == Formatted(data)
           r == fetchMetadataWithRetry(cache, pendingFetches,
                                       formattedData.mint, now)
           detected == Emit("pumpfun.mint.detected", formattedData)
       IN  /\ Len(orch) < MaxOrch
           /\ notifications' =
                detected \o [k \in 1 .. Len(r.emitted) |->
                               [event |-> "pumpfun.metadata.found",
                                payload |-> r.emitted[k]]]
           /\ cache' = r.cache
           /\ pendingFetches' = r.pending
           /\ orch' = Append(orch, r.call)
           /\ UNCHANGED <<now, ticks, batchVars>>

\* What handleData(data) does to the program: nothing when it returns early
\* or throws; otherwise it emits 'pumpfun.mint.detected' and calls
\* fetchMetadataWithRetry without awaiting it, so that the call runs to its
\* first await (or to its return) before handleData returns.
handleData(data) ==
  IF Dropped(data) \/ Raises(data)
  THEN UNCHANGED <<now, ticks, batchVars, cache, pendingFetches, orch, notifications>>
  ELSE LET formattedData == Formatted(data)
           r == fetchMetadataWithRetry(cache, pendingFetches,
                                       formattedData.mint, now)
           detected == Emit("pumpfun.mint.detected", formattedData)
       IN  /\ Len(orch) < MaxOrch
           /\ notifications' =
                detected \o [k \in 1 .. Len(r.emitted) |->
                               [event |-> "pumpfun.metadata.found",
                                payload |-> r.emitted[k]]]
           /\ cache' = r.cache
           /\ pendingFetches' = r.pending
           /\ orch' = Append(orch, r.call)
           /\ UNCHANGED <<now, ticks, batchVars>>

HandleData_Blocking(data) ==
  /\ \A i \in 1 .. Len(orch) : orch[i].pc = "done"
  /\ handleData(data)
  /\ UNCHANGED cacheGhosts

\* The stream delivers data and the 'data' listener calls handleData(data).
HandleData(data) == handleData(data) /\ UNCHANGED cacheGhosts

\* An attempt ended without metadata (continue, or the end of the loop body
\* after the catch): the next iteration waits for the delay, or the loop is
\* over, the failure is recorded and the finally block clears the pending
\* flag. c is the cache as the attempt left it.
NextAttempt_NoLimit(i, c, allAbsent) ==
  /\ orch' = [orch EXCEPT ![i].attempt = @ + 1,
                          ![i].pc = "delay",
                          ![i].wakeAt = now + delayMs,
                          ![i].allAbsent = allAbsent]
  /\ cache' = c
  /\ UNCHANGED pendingFetches

NextAttempt(i, c, allAbsent) ==
  IF orch[i].attempt + 1 <= maxRetries
  THEN /\ orch' = [orch EXCEPT ![i].attempt = @ + 1,
                               ![i].pc = "delay",
                               ![i].wakeAt = now + delayMs,
                               ![i].allAbsent = allAbsent]
       /\ cache' = c
       /\ UNCHANGED pendingFetches
  ELSE /\ orch' = [orch EXCEPT ![i] = Returned(orch[i].mint, "exhausted")]
       /\ cache' = markFailedAttempt(c, orch[i].mint, now)
       /\ pendingFetches' = markFetchCompleted(pendingFetches, orch[i].mint)

\* The setTimeout of the inter-attempt delay fires: the clock has reached
\* wakeAt at the least, and metadataAccountExists is called.
DelayElapses(i) ==
  /\ i \in 1 .. Len(orch)
  /\ orch[i].pc = "delay"
  /\ now' = IF now < orch[i].wakeAt THEN orch[i].wakeAt ELSE now
  /\ orch' = [orch EXCEPT ![i].pc = "exists", ![i].wakeAt = 0]
  /\ UNCHANGED <<ticks, batchVars, cache, pendingFetches, notifications,
                 cacheGhosts>>

\* metadataAccountExists settles: true, false, or rejected. (MetadataService
\* catches its own errors and answers false or null; a rejection is what the
\* catch block of the attempt loop is written for.)
ExistsOutcomes == {"true", "false", "throw"}

ExistsReturns_NoCatch(i, outcome) ==
  /\ i \in 1 .. Len(orch)
  /\ orch[i].pc = "exists"
  /\ IF outcome = "true"
     THEN /\ orch' = [orch EXCEPT ![i].pc = "fetch", ![i].fetchCalls = @ + 1,
                                  ![i].allAbsent = FALSE]
          /\ UNCHANGED <<cache, pendingFetches>>
     ELSE IF outcome = "false"
     THEN NextAttempt(i, cache, orch[i].allAbsent)
     ELSE /\ orch' = [orch EXCEPT ![i] = Returned(orch[i].mint, "rejected")]
          /\ pendingFetches' = markFetchCompleted(pendingFetches, orch[i].mint)
          /\ UNCHANGED cache
  /\ UNCHANGED <<now, ticks, batchVars, notifications, cacheGhosts>>

ExistsReturns(i, outcome) ==
  /\ i \in 1 .. Len(orch)
  /\ orch[i].pc = "exists"
  /\ IF outcome = "true"
     THEN /\ orch' = [orch EXCEPT ![i].pc = "fetch", ![i].fetchCalls = @ + 1,
                                  ![i].allAbsent = FALSE]
          /\ UNCHANGED <<cache, pendingFetches>>
     ELSE IF outcome = "false"
     THEN LET c == IF orch[i].attempt = maxRetries
                   THEN markFailedAttempt(cache, orch[i].mint, now)
                   ELSE cache
          IN  IF orch[i].attempt + 1 <= maxRetries
              THEN /\ orch' = [orch EXCEPT ![i].attempt = @ + 1,
                                           ![i].pc = "delay",
                                           ![i].wakeAt = now + delayMs]
                   /\ cache' = c
                   /\ UNCHANGED pendingFetches
              ELSE /\ orch' = [orch EXCEPT
                                ![i] = Returned(orch[i].mint, "exhausted")]
                   /\ cache' = markFailedAttempt(c, orch[i].mint, now)
                   /\ pendingFetches' =
                        markFetchCompleted(pendingFetches, orch[i].mint)
     ELSE NextAttempt(i, cache, FALSE)
  /\ UNCHANGED <<now, ticks, batchVars, notifications, cacheGhosts>>

\* What the metadata account of a mint holds on chain: MintA's token has a
\* name, MintB's has an empty one.
OnChain(mintAddress) ==
  TokenMetadata(mintAddress, IF mintAddress = "MintA" THEN "named" ELSE "unnamed")

\* getPumpFunTokenMetadata settles: the metadata record, null, or rejected.
FetchOutcomes == {"metadata", "null", "throw"}

FetchReturns_KeepsTrying(i, outcome) ==
  /\ i \in 1 .. Len(orch)
  /\ orch[i].pc = "fetch"
  /\ IF outcome = "metadata"
     THEN LET metadata == OnChain(orch[i].mint)
          IN  /\ notifications' =
                   Emit("pumpfun.metadata.found",
                        [mintAddress |-> orch[i].mint, metadata |-> metadata])
              /\ NextAttempt(i, set(cache, orch[i].mint, metadata, now), FALSE)
     ELSE /\ NextAttempt(i, cache, orch[i].allAbsent)
          /\ UNCHANGED notifications
  /\ UNCHANGED <<now, ticks, batchVars, cacheGhosts>>

FetchReturns(i, outcome) ==
  /\ i \in 1 .. Len(orch)
  /\ orch[i].pc = "fetch"
  /\ IF outcome = "metadata"
     THEN LET metadata == OnChain(orch[i].mint)
          IN  /\ cache' = set(cache, orch[i].mint, metadata, now)
              /\ notifications' =
                   Emit("pumpfun.metadata.found",
                        [mintAddress |-> orch[i].mint, metadata |-> metadata])
              /\ orch' = [orch EXCEPT ![i].pc = "categorize"]
              /\ UNCHANGED pendingFetches
     ELSE /\ NextAttempt(i, cache, orch[i].allAbsent)
          /\ UNCHANGED notifications
  /\ UNCHANGED <<now, ticks, batchVars, cacheGhosts>>

CategorizeReturns_MarksFailed(i, failed) ==
  /\ i \in 1 .. Len(orch)
  /\ orch[i].pc = "categorize"
  /\ orch' = [orch EXCEPT ![i] = Returned(orch[i].mint, "success")]
  /\ pendingFetches' = markFetchCompleted(pendingFetches, orch[i].mint)
  /\ cache' = IF failed THEN markFailedAttempt(cache, orch[i].mint, now)
                        ELSE cache
  /\ UNCHANGED <<now, ticks, batchVars, notifications, cacheGhosts>>

\* sendToCategorization settles (it catches whatever processTokenStream
\* throws): the call returns and the finally block clears the pending flag.
CategorizeReturns(i, failed) ==
  /\ i \in 1 .. Len(orch)
  /\ orch[i].pc = "categorize"
  /\ orch' = [orch EXCEPT ![i] = Returned(orch[i].mint, "success")]
  /\ pendingFetches' = markFetchCompleted(pendingFetches, orch[i].mint)
  /\ UNCHANGED <<now, ticks, batchVars, cache, notifications, cacheGhosts>>

OrchStep_OneAtATime(i) ==
  /\ \A k \in 1 .. (i - 1) : k \in 1 .. Len(orch) => orch[k].pc = "done"
  /\ \/ DelayElapses(i)
     \/ \E outcome \in ExistsOutcomes : ExistsReturns(i, outcome)
     \/ \E outcome \in FetchOutcomes : FetchReturns(i, outcome)
     \/ \E failed \in BOOLEAN : CategorizeReturns(i, failed)

\* One resumption of the i-th call.
OrchStep(i) ==
  \/ DelayElapses(i)
  \/ \E outcome \in ExistsOutcomes : ExistsReturns(i, outcome)
  \/ \E outcome \in FetchOutcomes : FetchReturns(i, outcome)
  \/ \E failed \in BOOLEAN : CategorizeReturns(i, failed)

\* The clock advances: past the retry delay, or past the expiry of a success
\* entry.
Jumps == {RETRY_DELAY_MS + 1, CACHE_EXPIRY_MS + 1}

Tick(d) ==
  /\ ticks < MaxJumps
  /\ now' = now + d
  /\ ticks' = ticks + 1
  /\ UNCHANGED batchVars
  /\ UNCHANGED <<cache, pendingFetches, orch, notifications,
                 cacheGhosts>>

\* The hourly cleanup timer set in onModuleInit fires.
CLEANUP_INTERVAL_MS == 60 * 60 * 1000

Sweep ==
  /\ now >= CLEANUP_INTERVAL_MS
  /\ cache' = cleanup(cache, now)
  /\ UNCHANGED <<now, ticks, batchVars, pendingFetches, orch, notifications,
                 cacheGhosts>>

\* The query surface: getByMint and clear.
QueryGetByMint(id) ==
  /\ cache' = get(cache, id, now).cache
  /\ UNCHANGED <<now, ticks, batchVars, pendingFetches, orch, notifications,
                 cacheGhosts>>

QueryClear ==
  /\ cache' = EmptyMap
  /\ pendingFetches' = {}
  /\ UNCHANGED <<now, ticks, batchVars, orch, notifications, cacheGhosts>>

Next ==
  \/ \E data \in Messages : HandleData(data)
  \/ \E i \in 1 .. MaxOrch : OrchStep(i)
  \/ \E d \in Jumps : Tick(d)
  \/ Sweep
  \/ \E id \in Mints : QueryGetByMint(id)
  \/ QueryClear

Spec == Init /\ [][Next]_vars

\* Every collaborator call and every delay of a started call settles in the
\* end: the promise it awaits is resolved or rejected, the timer fires.
LiveSpec == Spec /\ \A i \in 1 .. MaxOrch : WF_vars(OrchStep(i))

(***************************************************************************)
(* IngestSpec: the stream listener and the calls it dispatches. lastOp     *)
(* records the message the listener was called with last and whether       *)
(* handleData threw.                                                       *)
(***************************************************************************)
OnData(data) ==
  /\ handleData(data)
  /\ lastOp' = [op |-> "handleData", data |-> data, threw |-> Raises(data)]
  /\ UNCHANGED <<putMark, failMark>>

IngestNext ==
  \/ \E data \in Messages : OnData(data)
  \/ \E i \in 1 .. MaxOrch : OrchStep(i)

IngestSpec == Init /\ [][IngestNext]_vars

(***************************************************************************)
(* SweepSpec: detections, the calls they dispatch, the clock and the       *)
(* hourly cleanup timer. lastOp records what the last sweep removed and    *)
(* which mints were pending when it ran.                                   *)
(***************************************************************************)
SweepRuns ==
  /\ now >= CLEANUP_INTERVAL_MS
  /\ cache' = cleanup(cache, now)
  /\ lastOp' = [op |-> "cleanup", removed |-> DOMAIN cache \ DOMAIN cache',
                pending |-> pendingFetches]
  /\ UNCHANGED <<now, ticks, batchVars, pendingFetches, orch, notifications,
                 putMark, failMark>>

SweepNext ==
  \/ \E data \in Messages : HandleData(data)
  \/ \E i \in 1 .. MaxOrch : OrchStep(i)
  \/ \E d \in Jumps : Tick(d)
  \/ SweepRuns

SweepSpec == Init /\ [][SweepNext]_vars

(***************************************************************************)
(* BatchSpec: the batcher of CategorizationService. A token is the object  *)
(* one call of processTokenStream was given, named by the number of that   *)
(* call. categorizeWithOpenAI is awaited, so a call of processBatch stays  *)
(* in batchCalls from its splice until the request resolves or rejects,    *)
(* and tokens arrive and the timer fires in between. The category counts   *)
(* the results update depend on the model's answer and are not kept.       *)
(***************************************************************************)
BATCH_SIZE == 10

MaxTokens == 11

MaxBatchCalls == 2

MaxRejects == 2

otherVars == <<now, ticks, cache, pendingFetches, orch, notifications,
               lastOp, putMark, failMark>>

\* Array.prototype.splice(0, deleteCount): the removed items and what stays.
splice(buffer, deleteCount) ==
  LET n == IF Len(buffer) < deleteCount THEN Len(buffer) ELSE deleteCount
  IN  [removed |-> SubSeq(buffer, 1, n),
       rest |-> SubSeq(buffer, n + 1, Len(buffer))]

RECURSIVE Reverse(_)
Reverse(items) ==
  IF items = << >> THEN << >>
  ELSE Append(Reverse(Tail(items)), Head(items))

unshift_OneByOne(buffer, items) == Reverse(items) \o buffer

\* Array.prototype.unshift(...items)
unshift(buffer, items) == items \o buffer

\* processBatch() up to its await, called by the timer or by
\* processTokenStream on a full buffer: [tokenBuffer, batchCalls] after it.
processBatch(buffer, calls, by) ==
  IF Len(buffer) = 0
  THEN [tokenBuffer |-> buffer, batchCalls |-> calls]
  ELSE LET s == splice(buffer, BATCH_SIZE)
       IN  [tokenBuffer |-> s.rest,
            batchCalls |-> Append(calls, [batch |-> s.removed, by |-> by])]

\* processTokenStream(token)
ProcessTokenStream ==
  /\ passed < MaxTokens
  /\ Len(tokenBuffer) + 1 >= BATCH_SIZE => Len(batchCalls) < MaxBatchCalls
  /\ LET token == passed + 1
         pushed == Append(tokenBuffer, token)
         r == IF Len(pushed) >= BATCH_SIZE
              THEN processBatch(pushed, batchCalls, "full")
              ELSE [tokenBuffer |-> pushed, batchCalls |-> batchCalls]
     IN  /\ tokenBuffer' = r.tokenBuffer
         /\ batchCalls' = r.batchCalls
  /\ passed' = passed + 1
  /\ UNCHANGED <<categorized, rejected, otherVars>>

\* The setInterval callback of the constructor.
TimerFires ==
  /\ Len(batchCalls) < MaxBatchCalls
  /\ LET r == processBatch(tokenBuffer, batchCalls, "timer")
     IN  /\ tokenBuffer' = r.tokenBuffer
         /\ batchCalls' = r.batchCalls
  /\ UNCHANGED <<categorized, passed, rejected, otherVars>>

RemoveAt(calls, i) ==
  SubSeq(calls, 1, i - 1) \o SubSeq(calls, i + 1, Len(calls))

Occurrences(items, token) ==
  Cardinality({k \in 1 .. Len(items) : items[k] = token})

TimesCategorized(token) ==
  IF token \in DOMAIN categorized THEN categorized[token] ELSE 0

\* categorizeWithOpenAI(batch) resolves: the try block of processBatch ends.
CategorizeResolves(i) ==
  /\ i \in 1 .. Len(batchCalls)
  /\ LET batch == batchCalls[i].batch
         tokens == {batch[k] : k \in 1 .. Len(batch)}
     IN  categorized' =
           [token \in DOMAIN categorized \cup tokens |->
              TimesCategorized(token) + Occurrences(batch, token)]
  /\ batchCalls' = RemoveAt(batchCalls, i)
  /\ UNCHANGED <<tokenBuffer, passed, rejected, otherVars>>

\* categorizeWithOpenAI(batch) rejects: the catch block of processBatch.
CategorizeRejects(i) ==
  /\ i \in 1 .. Len(batchCalls)
  /\ rejected < MaxRejects
  /\ tokenBuffer' = unshift(tokenBuffer, batchCalls[i].batch)
  /\ batchCalls' = RemoveAt(batchCalls, i)
  /\ rejected' = rejected + 1
  /\ UNCHANGED <<categorized, passed, otherVars>>

BatchNext ==
  \/ ProcessTokenStream
  \/ TimerFires
  \/ \E i \in 1 .. MaxBatchCalls : CategorizeResolves(i)
  \/ \E i \in 1 .. MaxBatchCalls : CategorizeRejects(i)

BatchSpec == Init /\ [][BatchNext]_vars

(***************************************************************************)
(* Claims about the cache operations, checked under CacheSpec.             *)
(***************************************************************************)

\* A success entry that carries a name: what shouldRetry calls valid metadata.
ValidSuccess(c, id) == MapHas(c, id) /\ ~c[id].failed /\ c[id].name # ""

\* C6: after set(id, m) with no later write to id, get(id) returns a success
\* entry whose metadata is m while no more than CACHE_EXPIRY_MS (1 hour) has
\* passed since the set, and returns null once more than that has passed.
C6_GetAfterSet ==
  \A id \in Mints :
    putMark[id] # NoMark =>
      LET r == get(cache, id, now).ret
      IN  IF now - putMark[id].at <= CACHE_EXPIRY_MS
          THEN r # Null /\ ~r.failed /\ MetadataOf(r) = putMark[id].metadata
          ELSE r = Null

\* C6 witness: more than an hour after a set the entry is still stored (no
\* sweep has run) and get treats it as absent.
C6_Witness ==
  \E id \in Mints :
    /\ putMark[id] # NoMark
    /\ now - putMark[id].at > CACHE_EXPIRY_MS
    /\ MapHas(cache, id)
    /\ get(cache, id, now).ret = Null

\* C7 as stated: right after markFailedAttempt(id), shouldRetry(id) is false,
\* and once more than RETRY_DELAY_MS has passed with no further attempt on id
\* it is true, whatever was cached for id before.
C7_Original ==
  \A id \in Mints :
    /\ lastOp = [op |-> "markFailedAttempt", id |-> id]
         => ~shouldRetry(cache, id, now)
    /\ (failMark[id] # NoMark /\ now - failMark[id].at > RETRY_DELAY_MS)
         => shouldRetry(cache, id, now)

\* C7 amended: right after markFailedAttempt(id), shouldRetry(id) is false;
\* once more than RETRY_DELAY_MS has passed with no further attempt on id it
\* is true, unless id holds a success entry with a non-empty name (which
\* markFailedAttempt leaves a success entry), and then it stays false.
C7_RetryAfterFailure ==
  \A id \in Mints :
    /\ lastOp = [op |-> "markFailedAttempt", id |-> id]
         => ~shouldRetry(cache, id, now)
    /\ (failMark[id] # NoMark /\ now - failMark[id].at > RETRY_DELAY_MS)
         => (shouldRetry(cache, id, now) <=> ~ValidSuccess(cache, id))

\* C7 witness: a failed entry, still cached, whose last failed attempt is more
\* than RETRY_DELAY_MS ago, so that a retry is allowed again.
C7_Witness ==
  \E id \in Mints :
    /\ failMark[id] # NoMark
    /\ now - failMark[id].at > RETRY_DELAY_MS
    /\ MapHas(cache, id) /\ cache[id].failed
    /\ shouldRetry(cache, id, now)

C10_GetKeepsFailedEntry ==
  (/\ lastOp.op = "get"
   /\ lastOp.before # Null
   /\ lastOp.before.failed
   /\ now - lastOp.before.cachedAt <= FAILED_EXPIRY_MS)
    => /\ lastOp.ret = lastOp.before
       /\ MapHas(cache, lastOp.id)
       /\ cache[lastOp.id] = lastOp.before

(***************************************************************************)
(* Claims about the orchestrator, checked under Spec and LiveSpec.         *)
(***************************************************************************)
Calls == 1 .. Len(orch)

Running(i) == orch[i].pc # "done"

\* The step is handleData dispatching a call for mint id.
Dispatches(id) ==
  /\ Len(orch') = Len(orch) + 1
  /\ orch'[Len(orch')].mint = id

\* The notifications the step emits.
Emitted == SubSeq(notifications', Len(notifications) + 1, Len(notifications'))

\* C1: of two calls for the same id, the second made while the first has not
\* returned, the second returns at once without a collaborator call: it is
\* never left running and never ends as a fetch sequence.
C1_SingleFlight ==
  \A i \in Calls, j \in Calls :
    (i < j /\ orch[i].mint = orch[j].mint /\ Running(i))
      => orch[j].result \in {"duplicate", "cooldown", "cached"}

\* C2: a call that has marked its id pending returns in the end, and the step
\* in which it returns leaves the id out of the pending set.
C2_PendingCleared ==
  /\ \A i \in 1 .. MaxOrch :
       (i \in Calls /\ orch[i].marked) ~> (i \in Calls /\ ~Running(i))
  /\ [][\A i \in Calls :
          (orch[i].marked /\ ~Running(i)')
            => orch[i].mint \notin pendingFetches']_vars

\* C2 witness: one call has returned with metadata stored, another after
\* using up its attempts, and neither id is pending.
C2_Witness ==
  \E i \in Calls, j \in Calls :
    /\ orch[i].result = "success"
    /\ orch[j].result = "exhausted"
    /\ pendingFetches = {}

\* C3: when the last of maxRetries probes of a call returns false like all
\* before it, and nothing is cached for the id, the call has made no fetch
\* call and leaves a failed entry with attempts = maxRetries.
C3_AllAbsentCountsThree ==
  [][\A i \in Calls :
       (/\ orch[i].pc = "exists" /\ orch[i].attempt = maxRetries
        /\ orch[i].allAbsent
        /\ ~MapHas(cache, orch[i].mint)
        /\ orch'[i].result = "exhausted")
         => /\ orch[i].fetchCalls = 0
            /\ MapHas(cache', orch[i].mint)
            /\ cache'[orch[i].mint].failed
            /\ cache'[orch[i].mint].attempts = maxRetries]_vars

\* C4: when the fetch of attempt 1 failed and the fetch of attempt 2 returns
\* metadata, the entry stored is a success entry with attempts >= 2 and the
\* step emits exactly one 'metadata found'.
C4_SecondAttemptCountsTwo ==
  [][\A i \in Calls :
       (/\ orch[i].pc = "fetch" /\ orch[i].attempt = 2
        /\ orch[i].fetchCalls = 2
        /\ orch'[i].pc = "categorize")
         => /\ MapHas(cache', orch[i].mint)
            /\ ~cache'[orch[i].mint].failed
            /\ cache'[orch[i].mint].attempts >= 2
            /\ Len(Emitted) = 1
            /\ Emitted[1].event = "pumpfun.metadata.found"]_vars

\* A non-expired success entry is cached for id.
LiveSuccess(id) ==
  /\ MapHas(cache, id)
  /\ ~cache[id].failed
  /\ now - cache[id].cachedAt <= CACHE_EXPIRY_MS

\* The step leaves cache and pending set alone, the call it dispatched has
\* returned without a collaborator call, and after 'mint detected' it emits
\* one 'metadata found' for id.
ServedFromCache(id) ==
  /\ cache' = cache
  /\ pendingFetches' = pendingFetches
  /\ orch'[Len(orch')] = Returned(id, "cached")
  /\ Len(Emitted) = 2
  /\ Emitted[1].event = "pumpfun.mint.detected"
  /\ Emitted[2].event = "pumpfun.metadata.found"
  /\ Emitted[2].payload.mintAddress = id

\* 'metadata found' notifications emitted before the step by a call that
\* stored metadata for id.
StoredPayloads(id) ==
  {notifications[k].payload : k \in
     {n \in 1 .. Len(notifications) :
        /\ notifications[n].event = "pumpfun.metadata.found"
        /\ notifications[n].payload.mintAddress = id}}

\* C5 as stated: a call for an id with a non-expired success entry makes no
\* collaborator call, changes neither cache nor pending set, and emits one
\* 'metadata found' whose payload is one a storing call emitted.
C5_Original ==
  [][\A id \in Mints :
       (LiveSuccess(id) /\ Dispatches(id))
         => /\ ServedFromCache(id)
            /\ Emitted[2].payload \in StoredPayloads(id)]_vars

\* C5 amended: a call for an id with a non-expired success entry makes no
\* collaborator call, changes neither cache nor pending set, and emits one
\* 'metadata found' whose metadata is the cache entry itself: the metadata
\* the storing call emitted together with the entry's bookkeeping fields
\* (failed, cachedAt, attempts, lastAttempt).
C5_CachedPayloadIsEntry ==
  [][\A id \in Mints :
       (LiveSuccess(id) /\ Dispatches(id))
         => /\ ServedFromCache(id)
            /\ Emitted[2].payload.metadata = cache[id]
            /\ Bookkeeping \subseteq DOMAIN Emitted[2].payload.metadata
            /\ [mintAddress |-> id,
                metadata |-> MetadataOf(Emitted[2].payload.metadata)]
                 \in StoredPayloads(id)]_vars

\* C5 witness: a call was served from a success entry that had been stored
\* more than RETRY_DELAY_MS before and is still cached.
C5_Witness ==
  \E i \in Calls :
    /\ orch[i].result = "cached"
    /\ MapHas(cache, orch[i].mint)
    /\ now - cache[orch[i].mint].cachedAt > RETRY_DELAY_MS
    /\ \E k \in 1 .. Len(notifications) :
         /\ notifications[k].event = "pumpfun.metadata.found"
         /\ notifications[k].payload.metadata = cache[orch[i].mint]

\* C9: shouldRetry is true for every id without a cache entry, whatever is
\* cached or pending for other ids.
C9_RetryWithoutEntry ==
  \A id \in Mints : ~MapHas(cache, id) => shouldRetry(cache, id, now)

\* C9 witness: no call was ever made for an id and nothing is cached for it,
\* while another id is cached and a call for that other id is pending.
C9_Witness ==
  \E id \in Mints, other \in Mints :
    /\ id # other
    /\ \A i \in Calls : orch[i].mint # id
    /\ ~MapHas(cache, id)
    /\ MapHas(cache, other)
    /\ other \in pendingFetches
    /\ shouldRetry(cache, id, now)

(***************************************************************************)
(* Claims about the cache operations, continued (CacheSpec).               *)
(***************************************************************************)

\* The age of the entry of id, counted from cachedAt.
Age(c, id, t) == t - c[id].cachedAt

\* C11: cleanup removes exactly the success entries older than
\* CACHE_EXPIRY_MS (1 hour) and the failed entries older than 24 hours, and
\* leaves every other entry as it was.
C11_SweepRemovesExpired ==
  [][CallCleanup =>
       /\ DOMAIN cache' =
            {id \in DOMAIN cache :
               IF cache[id].failed
               THEN Age(cache, id, now) <= FAILED_EXPIRY_MS
               ELSE Age(cache, id, now) <= CACHE_EXPIRY_MS}
       /\ \A id \in DOMAIN cache' : cache'[id] = cache[id]]_vars

\* C11 witness: a sweep has just removed an entry and kept a failed entry
\* that is older than one hour.
C11_Witness ==
  /\ lastOp.op = "cleanup"
  /\ lastOp.removed # {}
  /\ \E id \in DOMAIN cache :
       cache[id].failed /\ Age(cache, id, now) > CACHE_EXPIRY_MS

\* C12: set(id, m) leaves a success entry for id with metadata m and
\* cachedAt = lastAttempt = now, whose attempts count is at least 1 and not
\* lower than the count recorded for id before the call.
C12_SetKeepsAttempts ==
  [][\A id \in Mints, variant \in MetaVariants :
       CallSet(id, variant) =>
         /\ MapHas(cache', id)
         /\ ~cache'[id].failed
         /\ MetadataOf(cache'[id]) = TokenMetadata(id, variant)
         /\ cache'[id].cachedAt = now /\ cache'[id].lastAttempt = now
         /\ cache'[id].attempts >= 1
         /\ cache'[id].attempts >= AttemptsOf(cache, id)]_vars

(***************************************************************************)
(* Claims about the cache and the pending set, checked under PendingSpec.  *)
(***************************************************************************)

\* C13: markFailedAttempt(id) creates a failed entry with attempts = 1 and
\* lastAttempt = now when id has no entry; otherwise it adds 1 to attempts
\* and sets lastAttempt = now, leaving failed, the metadata and cachedAt as
\* they were. The entries of other ids and the pending set are unchanged.
C13_MarkFailedAttemptFrame ==
  [][\A id \in Mints :
       CallMarkFailedAttempt(id) =>
         /\ MapHas(cache', id)
         /\ cache'[id].lastAttempt = now
         /\ IF ~MapHas(cache, id)
            THEN cache'[id].failed /\ cache'[id].attempts = 1
            ELSE /\ cache'[id].attempts = cache[id].attempts + 1
                 /\ cache'[id].failed = cache[id].failed
                 /\ cache'[id].cachedAt = cache[id].cachedAt
                 /\ MetadataOf(cache'[id]) = MetadataOf(cache[id])
         /\ \A other \in Mints \ {id} :
              /\ MapHas(cache', other) <=> MapHas(cache, other)
              /\ MapHas(cache, other) => cache'[other] = cache[other]
         /\ pendingFetches' = pendingFetches]_vars

\* C13 witness: markFailedAttempt has just counted a second attempt on a
\* success entry stored earlier, while another id is cached and an id is
\* pending.
C13_Witness ==
  \E id \in Mints, other \in Mints :
    /\ id # other
    /\ lastOp = [op |-> "markFailedAttempt", id |-> id]
    /\ MapHas(cache, id) /\ ~cache[id].failed
    /\ cache[id].attempts = 2
    /\ cache[id].lastAttempt > cache[id].cachedAt
    /\ MapHas(cache, other)
    /\ pendingFetches # {}

\* C14: markFetchCompleted(id) on an id that is not pending changes nothing;
\* markFetching(id) on a pending id leaves the pending set as it is; a
\* check-and-mark of an id that is not pending observes that and marks it,
\* and a check-and-mark that directly follows one for the same id observes
\* the id pending.
C14_PendingIdempotent ==
  [][\A id \in Mints :
       /\ (CallMarkFetchCompleted(id) /\ id \notin pendingFetches)
            => (pendingFetches' = pendingFetches /\ cache' = cache)
       /\ (CallMarkFetching(id) /\ id \in pendingFetches)
            => pendingFetches' = pendingFetches
       /\ (CheckAndMark(id) /\ id \notin pendingFetches)
            => (~lastOp'.alreadyFetching /\ id \in pendingFetches')
       /\ (CheckAndMark(id) /\ lastOp.op = "checkAndMark" /\ lastOp.id = id)
            => lastOp'.alreadyFetching]_vars

\* C14 witness: a check-and-mark has just found its id pending.
C14_Witness ==
  /\ lastOp.op = "checkAndMark"
  /\ lastOp.alreadyFetching
  /\ lastOp.id \in pendingFetches

(***************************************************************************)
(* Claims about the orchestrator, continued.                               *)
(***************************************************************************)

\* C15 (CacheSpec): when id has a failed entry whose lastAttempt is no more
\* than RETRY_DELAY_MS ago, a call of fetchMetadataWithRetry(id) returns
\* before any collaborator call, emits nothing and leaves the cache and the
\* pending set as they are.
C15_CooldownChangesNothing ==
  \A id \in DOMAIN cache :
    (cache[id].failed /\ now - cache[id].lastAttempt <= RETRY_DELAY_MS)
      => LET r == fetchMetadataWithRetry(cache, pendingFetches, id, now)
         IN  /\ r.call.pc = "done"
             /\ r.emitted = << >>
             /\ r.cache = cache
             /\ r.pending = pendingFetches

\* The metadataAccountExists calls the i-th call has made: one per attempt
\* begun (while it waits for the delay the next attempt has not probed yet).
ExistsCalls(i) ==
  IF orch[i].pc = "delay" THEN orch[i].attempt - 1 ELSE orch[i].attempt

\* C16: a call makes at most maxRetries exists calls and at most maxRetries
\* fetch calls, never two at a time, and a fetch call is only made by the
\* step in which the exists call of the same attempt returned true.
C16_AtMostMaxRetriesCalls ==
  /\ [](\A i \in Calls :
          Running(i) =>
            /\ orch[i].attempt \in 1 .. maxRetries
            /\ ExistsCalls(i) <= maxRetries
            /\ orch[i].fetchCalls <= ExistsCalls(i))
  /\ [][\A i \in Calls :
          (orch'[i].fetchCalls # orch[i].fetchCalls /\ Running(i)')
            => /\ orch[i].pc = "exists" /\ orch'[i].pc = "fetch"
               /\ orch'[i].attempt = orch[i].attempt
               /\ orch'[i].fetchCalls = orch[i].fetchCalls + 1]_vars

\* C16 witness: a call is in its third fetch call.
C16_Witness ==
  \E i \in Calls :
    /\ orch[i].pc = "fetch"
    /\ orch[i].attempt = maxRetries
    /\ orch[i].fetchCalls = maxRetries

\* C17: the step of a call in which its fetch returns metadata stores a
\* success entry with that metadata and emits one 'metadata found'; the call
\* then waits for the categorization only, and its last step returns
\* without touching the cache (no markFailedAttempt), without a further
\* exists or fetch call and without a notification.
C17_SuccessEndsTheCall ==
  [][\A i \in Calls :
       LET id == orch[i].mint
       IN  /\ (orch[i].pc = "fetch" /\ orch'[i] # orch[i]
                 /\ notifications' # notifications)
                => /\ orch'[i].pc = "categorize"
                   /\ MapHas(cache', id) /\ ~cache'[id].failed
                   /\ MetadataOf(cache'[id]) = OnChain(id)
                   /\ Emitted = <<[event |-> "pumpfun.metadata.found",
                                   payload |-> [mintAddress |-> id,
                                                metadata |-> OnChain(id)]]>>
           /\ (orch'[i].pc = "categorize" /\ orch[i].pc # "categorize")
                => (orch[i].pc = "fetch" /\ notifications' # notifications)
           /\ (orch[i].pc = "categorize" /\ orch'[i] # orch[i])
                => /\ orch'[i] = Returned(id, "success")
                   /\ cache' = cache
                   /\ notifications' = notifications]_vars

\* C17 witness: a call has returned after storing metadata on its third
\* attempt's fetch, and the success entry is cached.
C17_Witness ==
  \E i \in Calls :
    /\ orch[i].result = "success"
    /\ MapHas(cache, orch[i].mint)
    /\ ~cache[orch[i].mint].failed
    /\ cache[orch[i].mint].cachedAt = 2 * delayMs

\* What the step that ends an attempt of the i-th call can leave behind: the
\* cache (untouched, or with one or two failed attempts recorded), the
\* pending set, and where the call stands (waiting for the next attempt or
\* returned).
AttemptEndings(i) ==
  LET id == orch[i].mint
      once == markFailedAttempt(cache, id, now)
      twice == markFailedAttempt(once, id, now)
  IN  [cache : {cache, once, twice},
       pending : {pendingFetches, markFetchCompleted(pendingFetches, id)},
       pc : {"delay", "done"},
       attempt : 0 .. maxRetries]

\* The step leaves the ending e for the i-th call and emits nothing.
EndsAs(i, e) ==
  /\ cache' = e.cache
  /\ pendingFetches' = e.pending
  /\ notifications' = notifications
  /\ orch'[i].pc = e.pc
  /\ orch'[i].attempt = e.attempt

NormalResults == {"cached", "cooldown", "duplicate", "success", "exhausted"}

\* C19 (LiveSpec): whatever a collaborator answers (true, false, metadata,
\* null, a rejection, a failed categorization), the call takes a step for
\* it, and every call returns in the end with its promise fulfilled, never
\* rejected.
C19_NoOutcomeRejects ==
  /\ [](\A i \in Calls :
          /\ orch[i].result \in NormalResults \cup {"running"}
          /\ Running(i) <=> orch[i].result = "running"
          /\ orch[i].pc = "exists"
               => \A outcome \in ExistsOutcomes :
                    ENABLED ExistsReturns(i, outcome)
          /\ orch[i].pc = "fetch"
               => \A outcome \in FetchOutcomes :
                    ENABLED FetchReturns(i, outcome)
          /\ orch[i].pc = "categorize"
               => \A failed \in BOOLEAN :
                    ENABLED CategorizeReturns(i, failed))
  /\ \A i \in 1 .. MaxOrch :
       (i \in Calls) ~> (i \in Calls /\ orch[i].result \in NormalResults)

\* C19 witness: a call whose probes never returned true and that made no
\* fetch call, so that one of its exists calls threw, is on its last attempt.
C19_Witness ==
  \E i \in Calls :
    /\ Running(i)
    /\ orch[i].attempt = maxRetries
    /\ ~orch[i].allAbsent
    /\ orch[i].fetchCalls = 0

\* C20 (Spec): when processTokenStream fails after a successful fetch, the
\* step that ends sendToCategorization leaves the cache as it is (so the
\* entry written by set stays as set wrote it), calls no markFailedAttempt,
\* adds no notification, starts no further attempt and ends the call with
\* the pending flag cleared.
C20_CategorizationFailureIsolated ==
  [][\A i \in Calls :
       CategorizeReturns(i, TRUE)
         => /\ cache' = cache
            /\ notifications' = notifications
            /\ orch'[i].pc = "done"
            /\ orch'[i].result = "success"
            /\ orch'[i].attempt = 0
            /\ ~isFetching(pendingFetches', orch[i].mint)]_vars

\* C20 witness: the state such a step leaves when the first attempt
\* succeeded: the call has returned, the entry written by set at time 0 is
\* in the cache, the only notification after the detection is the one
\* emitted with the metadata, the mint is not pending.
C20_Witness ==
  \E i \in Calls :
    /\ orch[i].result = "success"
    /\ now = 0
    /\ MapHas(cache, orch[i].mint)
    /\ ~cache[orch[i].mint].failed
    /\ cache[orch[i].mint].cachedAt = 0
    /\ cache[orch[i].mint].attempts = 1
    /\ Len(notifications) = 2
    /\ notifications[2].event = "pumpfun.metadata.found"
    /\ notifications[2].payload.mintAddress = orch[i].mint
    /\ ~isFetching(pendingFetches, orch[i].mint)

(***************************************************************************)
(* Claims about the ingestor, checked under IngestSpec. The vocabulary of  *)
(* the claims is defined on the message itself.                            *)
(***************************************************************************)

\* The message of a transaction update, Undefined when the update carries no
\* transaction payload, no transaction or no message.
MessageOf(data) ==
  IF data.transaction = Undefined THEN Undefined
  ELSE IF data.transaction.transaction = Undefined THEN Undefined
  ELSE IF data.transaction.transaction.transaction = Undefined THEN Undefined
  ELSE data.transaction.transaction.transaction.message

\* The positions of the instructions whose leading 8 data bytes are the
\* create discriminator.
MatchingIndexes(data) ==
  IF MessageOf(data) = Undefined
  THEN {}
  ELSE {k \in 1 .. Len(MessageOf(data).instructions) :
          /\ Len(MessageOf(data).instructions[k].data) >= 8
          /\ SubSeq(MessageOf(data).instructions[k].data, 1, 8)
               = <<24, 30, 200, 40, 5, 28, 7, 119>>}

\* A transaction update with the subscribed filter tag and a matching
\* instruction.
IsCreate(data) == "pumpFun" \in data.filters /\ MatchingIndexes(data) # {}

FirstMatch(data) ==
  MessageOf(data).instructions[
    CHOOSE k \in MatchingIndexes(data) : \A j \in MatchingIndexes(data) : k <= j]

\* Operand 0 of the first matching instruction is present and indexes an
\* entry of the account-key table.
Operand0Resolves(data) ==
  /\ Len(FirstMatch(data).accounts) >= 1
  /\ FirstMatch(data).accounts[1] \in 0 .. (Len(MessageOf(data).accountKeys) - 1)

MintOf(data) ==
  toBase58(MessageOf(data).accountKeys[FirstMatch(data).accounts[1] + 1])

IsDetected(e) == e.event = "pumpfun.mint.detected"

\* The DetectedEvents among the notifications a step emits.
AddedDetected == SelectSeq(Emitted, IsDetected)
KeepsNotifications ==
  /\ Len(notifications') >= Len(notifications)
  /\ SubSeq(notifications', 1, Len(notifications)) = notifications

\* The step is the listener handling data.
Handles(data) ==
  lastOp'.op = "handleData" /\ lastOp'.data = data /\ OnData(data)

\* C21 as stated: handling a tagged transaction update with a matching
\* instruction emits exactly one DetectedEvent, whose mint is the account key
\* indexed by operand 0 of the first matching instruction.
C21_Original ==
  [][\A data \in Messages :
       (Handles(data) /\ IsCreate(data))
         => /\ KeepsNotifications
            /\ Len(AddedDetected) = 1
            /\ Operand0Resolves(data)
            /\ AddedDetected[1].payload.mint = MintOf(data)]_vars

\* C21 amended: handling a tagged transaction update with a matching
\* instruction, operand 0 of the first matching instruction resolving
\* through the account-key table, emits exactly one DetectedEvent, whose mint
\* is the base58 text of the account key indexed by that operand (also when
\* several instructions match).
C21_OneDetectedEvent ==
  [][\A data \in Messages :
       (Handles(data) /\ IsCreate(data) /\ Operand0Resolves(data))
         => /\ KeepsNotifications
            /\ Len(AddedDetected) = 1
            /\ AddedDetected[1].payload.mint = MintOf(data)]_vars

\* C21 witness: a message with two matching instructions naming different
\* mints was handled, and the DetectedEvent carrying its signature has the
\* mint of the first.
C21_Witness ==
  /\ lastOp.op = "handleData"
  /\ Cardinality(MatchingIndexes(lastOp.data)) >= 2
  /\ \E k \in 1 .. Len(notifications) :
       /\ IsDetected(notifications[k])
       /\ notifications[k].payload.signature =
            convertSignature(
              lastOp.data.transaction.transaction.signature).base58
       /\ notifications[k].payload.mint = MintOf(lastOp.data)
       /\ notifications[k].payload.mint = "MintB"

\* A message with no transaction payload, without the subscribed filter tag,
\* or with no matching instruction.
NotACreate(data) ==
  \/ data.transaction = Undefined
  \/ "pumpFun" \notin data.filters
  \/ MatchingIndexes(data) = {}

\* C22 (IngestSpec): handling a message that carries no transaction payload,
\* lacks the 'pumpFun' filter tag or has no matching instruction adds no
\* notification, dispatches no call of fetchMetadataWithRetry, throws
\* nothing, and leaves the cache and the pending set unchanged.
C22_NonMatchingDropped ==
  [][\A data \in Messages :
       (Handles(data) /\ NotACreate(data))
         => /\ notifications' = notifications
            /\ orch' = orch
            /\ ~lastOp'.threw
            /\ cache' = cache
            /\ pendingFetches' = pendingFetches]_vars

\* C22 witness: with an entry cached and a fetch pending, a transaction
\* update that has a matching instruction but not the filter tag was
\* handled, and nothing was thrown.
C22_Witness ==
  /\ lastOp.op = "handleData"
  /\ "pumpFun" \notin lastOp.data.filters
  /\ MatchingIndexes(lastOp.data) # {}
  /\ ~lastOp.threw
  /\ cache # EmptyMap
  /\ pendingFetches # {}

\* A message that fails the transaction-update shape: the update has no
\* transaction or no message, or operand 0 of its matching instruction is
\* absent or indexes no entry of the account-key table.
Malformed(data) ==
  /\ data.transaction # Undefined
  /\ "pumpFun" \in data.filters
  /\ \/ MessageOf(data) = Undefined
     \/ MatchingIndexes(data) # {} /\ ~Operand0Resolves(data)

\* C23 (IngestSpec): handling a message that fails the transaction-update
\* shape emits no DetectedEvent, dispatches no call of
\* fetchMetadataWithRetry and throws nothing.
C23_MalformedIsNonMatching ==
  [][\A data \in Messages :
       (Handles(data) /\ Malformed(data))
         => /\ notifications' = notifications
            /\ orch' = orch
            /\ ~lastOp'.threw]_vars

(***************************************************************************)
(* Claims about the ingestor and the query surface, checked under Spec.    *)
(***************************************************************************)

\* C24 (Spec): wherever the calls in flight are suspended (delay, exists
\* probe, fetch, categorization), the listener can handle every next
\* message (as long as the model has a call record left for a dispatch);
\* the handling step moves no earlier call, and it ends with the call it
\* dispatched either returned at once or suspended at its first exists
\* probe, no collaborator having answered.
C24_IngestionNeverBlocked ==
  /\ [](Len(orch) < MaxOrch
          => \A data \in Messages : ENABLED HandleData(data))
  /\ [][\A data \in Messages :
          (Len(orch') = Len(orch) + 1 /\ HandleData(data))
            => /\ \A i \in Calls : orch'[i] = orch[i]
               /\ \/ orch'[Len(orch')].pc = "done"
                  \/ /\ orch'[Len(orch')].pc = "exists"
                     /\ orch'[Len(orch')].attempt = 1
                     /\ orch'[Len(orch')].fetchCalls = 0]_vars

\* C24 witness: the first call is still waiting for the categorization
\* collaborator, and a second detection of its mint has been handled
\* meanwhile: it was served from the entry the first call stored.
C24_Witness ==
  /\ Len(orch) = 2
  /\ orch[1].pc = "categorize"
  /\ orch[2].mint = orch[1].mint
  /\ orch[2].result = "cached"

\* C25 (Spec): getByMint, the get-by-id read of the query surface, leaves the
\* cache map and the pending set as they are.
C25_QueryReadsChangeNothing ==
  [][\A id \in Mints :
       QueryGetByMint(id)
         => cache' = cache /\ pendingFetches' = pendingFetches]_vars

(***************************************************************************)
(* Claims about the reads of the query surface, checked under QuerySpec.   *)
(***************************************************************************)

\* C26 (QuerySpec): what search, getBySymbol, getByCharacteristics,
\* getRecent and getAllSuccessful return holds no failed entry, whatever the
\* cache holds; getByCharacteristics with no filter field given returns
\* exactly the entries getAllSuccessful returns.
C26_ReadsSkipFailed ==
  /\ lastOp.op \in {"search", "getBySymbol", "getByCharacteristics",
                    "getAllSuccessful"}
       => \A metadata \in lastOp.ret : ~metadata.failed
  /\ lastOp.op = "getRecent"
       => \A k \in 1 .. Len(lastOp.ret) : ~lastOp.ret[k].failed
  /\ (lastOp.op = "getByCharacteristics" /\ DOMAIN lastOp.arg = {})
       => lastOp.ret = getAllSuccessful(cache)

\* C26 witness: the cache holds a failed entry (whose name and symbol are
\* empty, so that the empty search term matches them) and a success entry;
\* search('') was called and returned the success entry only.
C26_Witness ==
  /\ lastOp.op = "search"
  /\ lastOp.arg = ""
  /\ \E id \in DOMAIN cache : cache[id].failed
  /\ lastOp.ret # {}
  /\ lastOp.ret = {cache[id] : id \in {k \in DOMAIN cache : ~cache[k].failed}}

\* C28 (QuerySpec): in every state getStats() gives totalEntries equal to the
\* number of cache entries and to successfulEntries + failedEntries, and
\* pendingFetches equal to the size of the pending set; a call of getStats
\* returns these numbers.
C28_StatsAddUp ==
  LET stats == getStats(cache, pendingFetches)
  IN  /\ stats.totalEntries = Cardinality(DOMAIN cache)
      /\ stats.totalEntries = stats.successfulEntries + stats.failedEntries
      /\ stats.pendingFetches = Cardinality(pendingFetches)
      /\ lastOp.op = "getStats" => lastOp.ret = stats

\* C28 witness: getStats was called with a success entry, a failed entry and
\* a pending fetch, and counted one of each.
C28_Witness ==
  /\ lastOp.op = "getStats"
  /\ lastOp.ret = [totalEntries |-> 2, successfulEntries |-> 1,
                   failedEntries |-> 1, pendingFetches |-> 1]

\* C27 (IngestSpec): handling a matching transaction (tagged, with a matching
\* instruction whose operand 0 resolves) emits one DetectedEvent for its mint
\* and makes one call of fetchMetadataWithRetry for its mint, whether or not
\* that mint was detected before, is pending or is cached.
C27_NoDuplicateSuppression ==
  [][\A data \in Messages :
       (Handles(data) /\ IsCreate(data) /\ Operand0Resolves(data))
         => /\ Len(AddedDetected) = 1
            /\ AddedDetected[1].payload.mint = MintOf(data)
            /\ Dispatches(MintOf(data))
            /\ \A i \in Calls : orch'[i] = orch[i]]_vars

\* C27 witness: a mint was detected a second time while its fetch was
\* pending: there are two DetectedEvents for it and two calls, of which the
\* second returned as a duplicate.
C27_Witness ==
  /\ Len(orch) = 2
  /\ orch[1].mint = orch[2].mint
  /\ orch[2].result = "duplicate"
  /\ Len(SelectSeq(notifications, IsDetected)) = 2
  /\ \A k \in 1 .. Len(notifications) :
       IsDetected(notifications[k])
         => notifications[k].payload.mint = orch[1].mint

\* The calls that have marked their mint pending and have not returned.
InFlight(id) == {i \in Calls : orch[i].mint = id /\ orch[i].marked /\ Running(i)}

\* C29 (Spec): in every state the pending set holds exactly the identifiers
\* with a call that has marked pending and not yet returned, and no
\* identifier has two such calls.
C29_PendingIsInFlight ==
  \A id \in Mints :
    /\ isFetching(pendingFetches, id) <=> InFlight(id) # {}
    /\ Cardinality(InFlight(id)) <= 1

\* C30 (Spec): in every state a success entry carries a non-empty name, and a
\* failed entry carries only bookkeeping and the empty placeholder fields
\* markFailedAttempt writes. (The cache is a map: an identifier has one
\* entry or none.)
C30_EntryShape ==
  \A id \in DOMAIN cache :
    /\ cache[id].mint = id
    /\ ~cache[id].failed => cache[id].name # ""
    /\ cache[id].failed
         => MetadataOf(cache[id]) =
              [mint |-> id, name |-> "", symbol |-> "", uri |-> "",
               updateAuthority |-> "", isMutable |-> FALSE,
               primarySaleHappened |-> FALSE, sellerFeeBasisPoints |-> 0]

(***************************************************************************)
(* Claims about retry, expiry and the order of notifications, checked      *)
(* under Spec.                                                             *)
(***************************************************************************)

\* The step in which call i returns with all its attempts used up.
Exhausts(i) == Running(i) /\ orch'[i].result = "exhausted"

\* C31 (Spec): the step in which a call exhausts its attempts leaves a failed
\* entry for its mint; and a call made for a mint with a failed entry whose
\* lastAttempt is more than RETRY_DELAY_MS ago, no fetch being pending for
\* it, marks the mint pending and calls metadataAccountExists.
C31_FailedThenRetried ==
  /\ [][\A i \in Calls :
          Exhausts(i) => /\ MapHas(cache', orch[i].mint)
                         /\ cache'[orch[i].mint].failed]_vars
  /\ [](\A id \in DOMAIN cache :
          (/\ cache[id].failed
           /\ now - cache[id].lastAttempt > RETRY_DELAY_MS
           /\ ~isFetching(pendingFetches, id))
            => LET r == fetchMetadataWithRetry(cache, pendingFetches, id, now)
               IN  /\ r.call.pc = "exists"
                   /\ r.call.attempt = 1
                   /\ isFetching(r.pending, id))

\* The step is handleData calling fetchMetadataWithRetry(id) while the cache
\* holds a success entry for id older than CACHE_EXPIRY_MS.
CallsOnExpired(id) ==
  /\ MapHas(cache, id)
  /\ ~cache[id].failed
  /\ now - cache[id].cachedAt > CACHE_EXPIRY_MS
  /\ Dispatches(id)

\* C32 as stated: such a call removes the entry, emits no 'metadata found'
\* notification and starts a new attempt sequence (marks the mint pending
\* and calls metadataAccountExists).
C32_Original ==
  [][\A id \in Mints :
       CallsOnExpired(id)
         => /\ ~MapHas(cache', id)
            /\ \A k \in 1 .. Len(Emitted) :
                 Emitted[k].event # "pumpfun.metadata.found"
            /\ orch'[Len(orch')].pc = "exists"
            /\ orch'[Len(orch')].attempt = 1
            /\ isFetching(pendingFetches', id)]_vars

\* C32 amended: such a call removes the entry and emits no 'metadata found'
\* notification, whether or not the sweep has run; it starts a new attempt
\* sequence unless a fetch is still pending for the mint, and then it
\* returns without one, as for a mint with no entry.
C32_ExpiredSuccessIsAbsent ==
  [][\A id \in Mints :
       CallsOnExpired(id)
         => /\ ~MapHas(cache', id)
            /\ \A k \in 1 .. Len(Emitted) :
                 Emitted[k].event # "pumpfun.metadata.found"
            /\ isFetching(pendingFetches, id)
                 => orch'[Len(orch')].result = "duplicate"
            /\ ~isFetching(pendingFetches, id)
                 => /\ orch'[Len(orch')].pc = "exists"
                    /\ orch'[Len(orch')].attempt = 1
                    /\ isFetching(pendingFetches', id)]_vars

\* C32 witness: the first call stored a success entry at time 0; more than
\* an hour later, the entry not having been swept, the mint was detected
\* again and the second call is at its first exists probe with no entry left.
C32_Witness ==
  /\ Len(orch) = 2
  /\ orch[1].mint = orch[2].mint
  /\ orch[1].result = "success"
  /\ orch[2].pc = "exists"
  /\ orch[2].attempt = 1
  /\ now > CACHE_EXPIRY_MS
  /\ ~MapHas(cache, orch[2].mint)
  /\ Len(SelectSeq(notifications, IsDetected)) = 2
  /\ Len(notifications) = 3

IsFound(e) == e.event = "pumpfun.metadata.found"

\* C33 (Spec): every 'metadata found' notification for a mint comes after an
\* 'asset detected' notification for the same mint, and the step that
\* dispatches a call emits 'asset detected' for its mint before anything the
\* call emits.
C33_DetectedBeforeFound ==
  /\ [](\A k \in 1 .. Len(notifications) :
          IsFound(notifications[k])
            => \E j \in 1 .. (k - 1) :
                 /\ IsDetected(notifications[j])
                 /\ notifications[j].payload.mint =
                      notifications[k].payload.mintAddress)
  /\ [][\A id \in Mints :
          Dispatches(id)
            => /\ Len(Emitted) >= 1
               /\ IsDetected(Emitted[1])
               /\ Emitted[1].payload.mint = id]_vars

\* C33 witness: a mint was detected once with a cached entry, so that the
\* handling step itself emitted 'asset detected' and then 'metadata found'.
C33_Witness ==
  /\ Len(orch) = 2
  /\ orch[2].result = "cached"
  /\ Len(notifications) >= 2
  /\ IsDetected(notifications[Len(notifications) - 1])
  /\ IsFound(notifications[Len(notifications)])
  /\ notifications[Len(notifications)].payload.mintAddress = orch[2].mint
  /\ notifications[Len(notifications) - 1].payload.mint = orch[2].mint

\* The part of the cache and of the pending set that concerns id.
OwnCache(c, id) == [k \in DOMAIN c \cap {id} |-> c[k]]
OwnPending(p, id) == p \cap {id}

\* C34 (Spec): calls for different mints do not hinder each other. Whether a
\* call for id starts an attempt sequence depends on the entry and the
\* pending flag of id alone; every call in flight can take its next step
\* whatever the other calls are suspended at; and a step of one call changes
\* neither another call nor the entry or the pending flag of another mint.
C34_MintsIndependent ==
  /\ [](\A id \in Mints :
          fetchMetadataWithRetry(cache, pendingFetches, id, now).call
            = fetchMetadataWithRetry(OwnCache(cache, id),
                                     OwnPending(pendingFetches, id),
                                     id, now).call)
  /\ [](\A i \in Calls : Running(i) => ENABLED OrchStep(i))
  /\ [][\A i \in Calls :
          (orch'[i] # orch[i] /\ OrchStep(i))
            => /\ \A j \in Calls \ {i} : orch'[j] = orch[j]
               /\ \A id \in Mints \ {orch[i].mint} :
                    /\ OwnCache(cache', id) = OwnCache(cache, id)
                    /\ OwnPending(pendingFetches', id)
                         = OwnPending(pendingFetches, id)]_vars

\* C34 witness: the mint detected second has reached 'metadata found' and its
\* call has returned while the call for the mint detected first is still
\* waiting for the inter-attempt delay.
C34_Witness ==
  /\ Len(orch) = 2
  /\ orch[1].mint # orch[2].mint
  /\ orch[1].pc = "delay"
  /\ orch[2].result = "success"
  /\ Len(notifications) = 3
  /\ IsDetected(notifications[1])
  /\ notifications[1].payload.mint = orch[1].mint
  /\ IsDetected(notifications[2])
  /\ IsFound(notifications[3])
  /\ notifications[3].payload.mintAddress = orch[2].mint

(***************************************************************************)
(* Claims about the hourly sweep, checked under SweepSpec.                 *)
(***************************************************************************)
WithinTtl(e, t) ==
  IF e.failed THEN t - e.lastAttempt <= FAILED_EXPIRY_MS
  ELSE t - e.cachedAt <= CACHE_EXPIRY_MS

C36_ExhaustionCountsOnce ==
  [][\A i \in Calls :
       Exhausts(i) =>
         AttemptsOf(cache', orch[i].mint)
           = AttemptsOf(cache, orch[i].mint) + 1]_vars

\* C37: on every step that emits 'pumpfun.metadata.found' for a mint, the
\* cache after the step holds an entry for that mint that is not failed, is
\* no older than CACHE_EXPIRY_MS, and carries the metadata of the event's
\* payload (the payload of the cached path is the entry, bookkeeping
\* fields included; the payload of the fetch path is the fetched metadata).
C37_FoundIsCached ==
  [][\A k \in 1 .. Len(Emitted) :
       IsFound(Emitted[k]) =>
         LET id == Emitted[k].payload.mintAddress
             metadata == Emitted[k].payload.metadata
         IN  /\ MapHas(cache', id)
             /\ ~cache'[id].failed
             /\ now' - cache'[id].cachedAt <= CACHE_EXPIRY_MS
             /\ MetadataOf(cache'[id]) = MetadataOf(metadata)
             /\ cache'[id].mint = id]_vars

\* A mint's metadata was found by a fetch and later found again in the
\* cache: the later event carries the entry the cache holds.
C37_Witness ==
  \E j, k \in 1 .. Len(notifications) :
    /\ j < k
    /\ k = Len(notifications)
    /\ IsFound(notifications[j])
    /\ IsFound(notifications[k])
    /\ notifications[j].payload.mintAddress
         = notifications[k].payload.mintAddress
    /\ notifications[j].payload.metadata
         = OnChain(notifications[j].payload.mintAddress)
    /\ MapHas(cache, notifications[k].payload.mintAddress)
    /\ notifications[k].payload.metadata
         = cache[notifications[k].payload.mintAddress]
    /\ now > 0

\* The list queries of C38.
ListQueries == {"search", "getBySymbol", "getRecent", "getAllSuccessful"}

\* The entries a list query returned (getRecent returns them in order).
Returned38(op, ret) ==
  IF op = "getRecent" THEN {ret[k] : k \in 1 .. Len(ret)} ELSE ret

\* C38: every entry a call of search, getBySymbol, getRecent or
\* getAllSuccessful returns is the entry get() returns for its mint at the
\* same instant, so none of them is a success entry older than
\* CACHE_EXPIRY_MS.
C38_ListsAgreeWithGet ==
  [][(lastOp'.op \in ListQueries /\ cache' = cache /\ now' = now) =>
       \A entry \in Returned38(lastOp'.op, lastOp'.ret) :
         /\ get(cache, entry.mint, now).ret = entry
         /\ now - entry.cachedAt <= CACHE_EXPIRY_MS]_vars

(***************************************************************************)
(* Claims about the categorization batcher, checked under BatchSpec.       *)
(***************************************************************************)
\* In how many in-flight batches, at how many positions, a token is.
InFlightOccurrences(token) ==
  Cardinality({p \in (1 .. Len(batchCalls)) \X (1 .. BATCH_SIZE) :
                 /\ p[2] <= Len(batchCalls[p[1]].batch)
                 /\ batchCalls[p[1]].batch[p[2]] = token})

\* In how many places a token is: positions of the buffer, positions of
\* in-flight batches, categorized batches.
Places(token) ==
  Occurrences(tokenBuffer, token) + InFlightOccurrences(token)
    + TimesCategorized(token)

\* C39: every token processTokenStream was called with is in exactly one
\* place (the buffer, one in-flight batch, or a categorized batch) and
\* nothing else is in any of them; an in-flight batch holds between 1 and
\* BATCH_SIZE tokens; and the step on which a batch fails removes that
\* batch from the calls in flight and puts its tokens, in the order the
\* batch held them, in front of what the buffer held, whatever other batch
\* is in flight.
C39_NoTokenLostOrDuplicated ==
  /\ [](/\ \A token \in 1 .. passed : Places(token) = 1
        /\ \A k \in 1 .. Len(tokenBuffer) : tokenBuffer[k] \in 1 .. passed
        /\ DOMAIN categorized \subseteq 1 .. passed
        /\ \A i \in 1 .. Len(batchCalls) :
             /\ Len(batchCalls[i].batch) \in 1 .. BATCH_SIZE
             /\ \A k \in 1 .. Len(batchCalls[i].batch) :
                  batchCalls[i].batch[k] \in 1 .. passed)
  /\ [][rejected' # rejected =>
          \E i \in 1 .. Len(batchCalls) :
            /\ batchCalls' = RemoveAt(batchCalls, i)
            /\ Len(tokenBuffer')
                 = Len(batchCalls[i].batch) + Len(tokenBuffer)
            /\ SubSeq(tokenBuffer', 1, Len(batchCalls[i].batch))
                 = batchCalls[i].batch
            /\ SubSeq(tokenBuffer', Len(batchCalls[i].batch) + 1,
                      Len(tokenBuffer')) = tokenBuffer
            /\ categorized' = categorized]_vars

\* A batch the timer took (token 1) and a batch taken on a full buffer
\* (tokens 2 to 11) were in flight together and both failed, the timer's
\* first: each was put back in front of what the buffer held then.
C39_Witness ==
  /\ rejected = 2
  /\ passed = 11
  /\ batchCalls = << >>
  /\ tokenBuffer = <<2, 3, 4, 5, 6, 7, 8, 9, 10, 11, 1>>
  /\ DOMAIN categorized = {}
====
